---- MODULE Spec2Model ----
(***************************************************************************)
(* Model of the scoring and ranking engine of ai-resume-analyzer:          *)
(* ResumeRanker (src/ranker.py) and the two callers in src/app.py.         *)
(*                                                                         *)
(* Python values are modelled as follows.                                  *)
(*   str    a record [type |-> "str", val |-> sequence of characters]      *)
(*   None   the record [type |-> "NoneType"]                               *)
(*   int    a record [type |-> "int", num |-> n] (experience years)        *)
(*   float  an exact rational [n |-> numerator, d |-> denominator] in      *)
(*          lowest terms; the model does not round                         *)
(*   dict   a function from key names to values; d.get(k, default) is Get  *)
(*   text   a sequence of word tokens; the empty text is <<>>              *)
(***************************************************************************)
EXTENDS Integers, Sequences, FiniteSets, TLC

VARIABLES ranker, op, args, ret, st_errors, raised, earlier

vars == <<ranker, op, args, ret, st_errors, raised, earlier>>

(* ------------------------------ bounds --------------------------------- *)
MaxSkills == 2
MaxYears == 6

(* --------------------------- Python values ----------------------------- *)
PyStr(s) == [type |-> "str", val |-> s]

None == [type |-> "NoneType"]

PyInt(k) == [type |-> "int", num |-> k]

IsStr(x) == x.type = "str"

IsInt(x) == x.type = "int"

Get(d, k, default) == IF k \in DOMAIN d THEN d[k] ELSE default

SeqToSet(s) == {s[i] : i \in 1..Len(s)}

Min(a, b) == IF a <= b THEN a ELSE b

(* str.lower(): every upper-case character becomes its lower-case one *)
LowerChar(c) ==
  CASE c = "P" -> "p"
    [] c = "S" -> "s"
    [] c = "J" -> "j"
    [] OTHER -> c

str_lower(s) == PyStr([i \in 1..Len(s.val) |-> LowerChar(s.val[i])])

(* str.strip(): leading and trailing whitespace removed *)
RECURSIVE StripLeft(_)
StripLeft(cs) ==
  IF cs # <<>> /\ Head(cs) = " " THEN StripLeft(Tail(cs)) ELSE cs

RECURSIVE StripRight(_)
StripRight(cs) ==
  IF cs # <<>> /\ cs[Len(cs)] = " "
  THEN StripRight(SubSeq(cs, 1, Len(cs) - 1))
  ELSE cs

str_strip(s) == PyStr(StripRight(StripLeft(s.val)))

(* ------------------------- exact rationals ----------------------------- *)
RECURSIVE GCD(_, _)
GCD(a, b) == IF b = 0 THEN a ELSE GCD(b, a % b)

Frac(a, b) == LET g == GCD(a, b) IN [n |-> a \div g, d |-> b \div g]

Zero == Frac(0, 1)

One == Frac(1, 1)

FAdd(x, y) == Frac(x.n * y.d + y.n * x.d, x.d * y.d)

FMul(x, y) == Frac(x.n * y.n, x.d * y.d)

FLt(x, y) == x.n * y.d < y.n * x.d

FLe(x, y) == x.n * y.d <= y.n * x.d

FMin(x, y) == IF FLe(x, y) THEN x ELSE y

(* an operation's outcome: the value it returns, or an exception *)
Return(v) == [raised |-> FALSE, value |-> v]

Raise(e) == [raised |-> TRUE, value |-> e]

(* ----------------------- ResumeRanker.__init__ ------------------------- *)
(* spacy.load succeeds, or the download succeeds, or both fail and nlp is  *)
(* None.  No other attribute is assigned: in particular no vectorizer.     *)
ResumeRanker_init(outcome) ==
  IF outcome \in {"loaded", "downloaded"}
  THEN [self |-> [nlp |-> "en_core_web_sm"], errors |-> <<>>]
  ELSE [self |-> [nlp |-> "None"],
        errors |-> <<[kind |-> "spacy_model_loading_failed"]>>]

(* mutant: the matches are divided by the number of distinct required skills *)
calculate_skill_match_score_distinct(resume_skills, required_skills) ==
  IF required_skills = <<>> \/ resume_skills = <<>> THEN Return(Zero)
  ELSE IF \E x \in SeqToSet(resume_skills) \cup SeqToSet(required_skills) : ~IsStr(x)
       THEN Raise("AttributeError")
  ELSE
    LET norm(list) == {str_strip(str_lower(x)) : x \in SeqToSet(list)}
    IN Return(Frac(Cardinality(norm(resume_skills) \cap norm(required_skills)),
                   Cardinality(norm(required_skills))))

(* ---------------- ResumeRanker.calculate_skill_match_score ------------- *)
calculate_skill_match_score(resume_skills, required_skills) ==
  IF required_skills = <<>> THEN Return(Zero)
  ELSE IF resume_skills = <<>> THEN Return(Zero)
  ELSE IF \E i \in 1..Len(resume_skills) : ~IsStr(resume_skills[i])
       THEN Raise("AttributeError")
  ELSE IF \E i \in 1..Len(required_skills) : ~IsStr(required_skills[i])
       THEN Raise("AttributeError")
  ELSE
    LET resume_skills_lower ==
          [i \in 1..Len(resume_skills) |-> str_strip(str_lower(resume_skills[i]))]
        required_skills_lower ==
          [i \in 1..Len(required_skills) |-> str_strip(str_lower(required_skills[i]))]
        matched_skills ==
          SeqToSet(resume_skills_lower) \cap SeqToSet(required_skills_lower)
    IN Return(Frac(Cardinality(matched_skills), Len(required_skills_lower)))

(* mutant: the ratio is taken the wrong way round *)
calculate_experience_score_inverted(resume_experience, required_experience) ==
  IF IsInt(required_experience) /\ required_experience.num = 0 THEN Return(One)
  ELSE IF ~IsInt(resume_experience) \/ ~IsInt(required_experience)
       THEN Raise("TypeError")
  ELSE IF resume_experience.num >= required_experience.num THEN Return(One)
  ELSE IF resume_experience.num = 0 THEN Return(Zero)
  ELSE Return(FMin(Frac(required_experience.num, resume_experience.num), One))

(* mutant: the ratio alone, neither capped nor cut short at the minimum *)
calculate_experience_score_uncapped(resume_experience, required_experience) ==
  IF IsInt(required_experience) /\ required_experience.num = 0 THEN Return(One)
  ELSE IF ~IsInt(resume_experience) \/ ~IsInt(required_experience)
       THEN Raise("TypeError")
  ELSE Return(Frac(resume_experience.num, required_experience.num))

(* ---------------- ResumeRanker.calculate_experience_score -------------- *)
calculate_experience_score(resume_experience, required_experience) ==
  IF IsInt(required_experience) /\ required_experience.num = 0 THEN Return(One)
  ELSE IF ~IsInt(resume_experience) \/ ~IsInt(required_experience)
       THEN Raise("TypeError")
  ELSE IF resume_experience.num >= required_experience.num THEN Return(One)
  ELSE IF resume_experience.num = 0 THEN Return(Zero)
  ELSE Return(FMin(Frac(resume_experience.num, required_experience.num), One))

(* mutant: no try/except around the vectorizer step *)
calculate_text_similarity_uncaught(self, resume_text, job_description) ==
  IF resume_text = <<>> \/ job_description = <<>>
  THEN [raised |-> FALSE, value |-> Zero, errors |-> <<>>, vectorizer_used |-> FALSE]
  ELSE IF "vectorizer" \notin DOMAIN self
  THEN [raised |-> TRUE, value |-> Zero, errors |-> <<>>, vectorizer_used |-> TRUE]
  ELSE [raised |-> FALSE, value |-> self["vectorizer"][<<resume_text, job_description>>],
        errors |-> <<>>, vectorizer_used |-> TRUE]

(* ---------------- ResumeRanker.calculate_text_similarity --------------- *)
(* self.vectorizer is read inside the try block.  An object without that   *)
(* attribute makes the read raise AttributeError, which the except clause  *)
(* reports with st.error and turns into 0.0.  With the attribute present   *)
(* the result is whatever that object computes for the two documents.      *)
calculate_text_similarity(self, resume_text, job_description) ==
  IF resume_text = <<>> \/ job_description = <<>>
  THEN [raised |-> FALSE, value |-> Zero, errors |-> <<>>, vectorizer_used |-> FALSE]
  ELSE IF "vectorizer" \notin DOMAIN self
  THEN [raised |-> FALSE, value |-> Zero,
        errors |-> <<[kind |-> "text_similarity_error", reason |-> "AttributeError"]>>,
        vectorizer_used |-> TRUE]
  ELSE [raised |-> FALSE, value |-> self["vectorizer"][<<resume_text, job_description>>],
        errors |-> <<>>, vectorizer_used |-> TRUE]

(* ------------------ the weighted sum of rank_resumes ------------------- *)
SkillWeight == 40

TextWeight == 35

ExperienceWeight == 25

final_score(skill_score, text_similarity, experience_score) ==
  FAdd(FAdd(FMul(skill_score, Frac(SkillWeight, 100)),
            FMul(text_similarity, Frac(TextWeight, 100))),
       FMul(experience_score, Frac(ExperienceWeight, 100)))

(* --------------- one iteration of the loop of rank_resumes ------------- *)
(* The body of the try block for one resume: either the result appended    *)
(* to ranked_resumes, or the exception that sends control to the except    *)
(* clause, with the st.error calls made on the way.                        *)
score_resume(self, resume_data, job_requirements) ==
  LET skills == Get(resume_data, "skills", <<>>)
      required == Get(job_requirements, "required_skills", <<>>)
      skill == calculate_skill_match_score(skills, required)
      text == calculate_text_similarity(self, Get(resume_data, "text", <<>>),
                                        Get(job_requirements, "job_description", <<>>))
      experience ==
        calculate_experience_score(Get(resume_data, "experience_years", PyInt(0)),
                                   Get(job_requirements, "min_experience", PyInt(0)))
  IN IF skill.raised THEN [raised |-> TRUE, value |-> skill.value, errors |-> <<>>]
     ELSE IF experience.raised
     THEN [raised |-> TRUE, value |-> experience.value, errors |-> text.errors]
     ELSE IF /\ skills # <<>>
             /\ required # <<>>
             /\ \E x \in SeqToSet(skills) \cup SeqToSet(required) : ~IsStr(x)
     THEN [raised |-> TRUE, value |-> "AttributeError", errors |-> text.errors]
     ELSE
       LET matched_skills ==
             IF skills # <<>> /\ required # <<>>
             THEN {str_lower(x) : x \in SeqToSet(skills)}
                    \cap {str_lower(x) : x \in SeqToSet(required)}
             ELSE {}
       IN [raised |-> FALSE,
           value |->
             [filename |-> Get(resume_data, "filename", "Unknown"),
              final_score |-> final_score(skill.value, text.value, experience.value),
              skill_score |-> skill.value,
              text_similarity |-> text.value,
              experience_score |-> experience.value,
              matched_skills |-> matched_skills,
              total_skills |-> Len(skills),
              experience_years |-> Get(resume_data, "experience_years", PyInt(0)),
              contact_info |-> Get(resume_data, "contact_info", [k \in {} |-> ""])],
           errors |-> text.errors]

(* the except clause of the loop: st.error with the filename and reason *)
processing_error(resume_data, reason) ==
  [kind |-> "processing_error",
   filename |-> Get(resume_data, "filename", "Unknown"),
   reason |-> reason]

(* mutant: a descending sort that puts an entry ahead of its equals *)
sort_insert_ties_first(sorted, x) ==
  LET ahead == {i \in 1..Len(sorted) : FLt(x.final_score, sorted[i].final_score)}
      k == Cardinality(ahead)
  IN SubSeq(sorted, 1, k) \o <<x>> \o SubSeq(sorted, k + 1, Len(sorted))

(* mutant: an entry whose score is already in the list is not inserted *)
sort_insert_one_per_score(sorted, x) ==
  IF \E i \in 1..Len(sorted) : sorted[i].final_score = x.final_score
  THEN sorted
  ELSE LET k == Cardinality({i \in 1..Len(sorted) :
                               FLe(x.final_score, sorted[i].final_score)})
       IN SubSeq(sorted, 1, k) \o <<x>> \o SubSeq(sorted, k + 1, Len(sorted))

(* list.sort(key=final_score, reverse=True): descending, and stable, so    *)
(* entries with equal keys keep the order they had in the list.            *)
sort_insert(sorted, x) ==
  LET ahead == {i \in 1..Len(sorted) : FLe(x.final_score, sorted[i].final_score)}
      k == Cardinality(ahead)
  IN SubSeq(sorted, 1, k) \o <<x>> \o SubSeq(sorted, k + 1, Len(sorted))

RECURSIVE sort_by_final_score(_)
sort_by_final_score(list) ==
  IF list = <<>> THEN <<>>
  ELSE sort_insert(sort_by_final_score(SubSeq(list, 1, Len(list) - 1)), list[Len(list)])

(* mutant: the except clause ends the loop instead of continuing it *)
RECURSIVE rank_loop_break(_, _, _, _)
rank_loop_break(self, resumes_data, job_requirements, k) ==
  IF k = 0 THEN [ranked_resumes |-> <<>>, errors |-> <<>>, broken |-> FALSE]
  ELSE
    LET before == rank_loop_break(self, resumes_data, job_requirements, k - 1)
        r == score_resume(self, resumes_data[k], job_requirements)
    IN IF before.broken THEN before
       ELSE IF r.raised
       THEN [ranked_resumes |-> before.ranked_resumes,
             errors |-> before.errors \o r.errors
                          \o <<processing_error(resumes_data[k], r.value)>>,
             broken |-> TRUE]
       ELSE [ranked_resumes |-> Append(before.ranked_resumes, r.value),
             errors |-> before.errors \o r.errors,
             broken |-> FALSE]

(* the for loop of rank_resumes over resumes_data[1..k] *)
RECURSIVE rank_loop(_, _, _, _)
rank_loop(self, resumes_data, job_requirements, k) ==
  IF k = 0 THEN [ranked_resumes |-> <<>>, errors |-> <<>>]
  ELSE
    LET before == rank_loop(self, resumes_data, job_requirements, k - 1)
        r == score_resume(self, resumes_data[k], job_requirements)
    IN IF r.raised
       THEN [ranked_resumes |-> before.ranked_resumes,
             errors |-> before.errors \o r.errors
                          \o <<processing_error(resumes_data[k], r.value)>>]
       ELSE [ranked_resumes |-> Append(before.ranked_resumes, r.value),
             errors |-> before.errors \o r.errors]

(* mutant: ranked_resumes is kept on the ranker instead of starting empty *)
rank_resumes_keeps_list(self, resumes_data, job_requirements) ==
  LET done == rank_loop(self, resumes_data, job_requirements, Len(resumes_data))
      kept == Get(self, "ranked_resumes", <<>>) \o done.ranked_resumes
  IN [raised |-> FALSE,
      value |-> sort_by_final_score(kept),
      errors |-> done.errors,
      self |-> [a \in DOMAIN self \cup {"ranked_resumes"} |->
                  IF a = "ranked_resumes" THEN kept ELSE self[a]]]

(* ----------------------- ResumeRanker.rank_resumes --------------------- *)
(* ranked_resumes is a local list that starts empty on every call, and no  *)
(* attribute of self is assigned: the ranker is the same after the call.   *)
rank_resumes(self, resumes_data, job_requirements) ==
  LET done == rank_loop(self, resumes_data, job_requirements, Len(resumes_data))
  IN [raised |-> FALSE,
      value |-> sort_by_final_score(done.ranked_resumes),
      errors |-> done.errors,
      self |-> self]

(* ---------------- ResumeRanker.get_improvement_suggestions ------------- *)
(* A message is its category; the priority-learning message also carries   *)
(* the skills its text lists.                                              *)
Message(kind) == [kind |-> kind, skills |-> <<>>]

TopMissing == 3

(* mutant: every missing skill is listed, not the first three *)
get_improvement_suggestions_all_missing(skill_score, text_similarity, experience_score, missing_skills) ==
  LET s1 == IF FLt(skill_score, Frac(3, 10)) THEN <<Message("critical_skill_gap")>>
            ELSE IF FLt(skill_score, Frac(6, 10)) THEN <<Message("skill_enhancement")>>
            ELSE <<>>
      s2 == IF FLt(text_similarity, Frac(2, 10)) THEN s1 \o <<Message("resume_content")>>
            ELSE IF FLt(text_similarity, Frac(4, 10))
                 THEN s1 \o <<Message("content_optimization")>>
            ELSE s1
      s3 == IF FLt(experience_score, Frac(5, 10)) THEN s2 \o <<Message("experience_gap")>>
            ELSE s2
      s4 == IF missing_skills # <<>>
            THEN s3 \o <<[kind |-> "priority_learning", skills |-> missing_skills]>>
            ELSE s3
  IN IF s4 = <<>> THEN <<Message("excellent_match")>> ELSE s4

get_improvement_suggestions(skill_score, text_similarity, experience_score, missing_skills) ==
  LET s1 == IF FLt(skill_score, Frac(3, 10)) THEN <<Message("critical_skill_gap")>>
            ELSE IF FLt(skill_score, Frac(6, 10)) THEN <<Message("skill_enhancement")>>
            ELSE <<>>
      s2 == IF FLt(text_similarity, Frac(2, 10)) THEN s1 \o <<Message("resume_content")>>
            ELSE IF FLt(text_similarity, Frac(4, 10))
                 THEN s1 \o <<Message("content_optimization")>>
            ELSE s1
      s3 == IF FLt(experience_score, Frac(5, 10)) THEN s2 \o <<Message("experience_gap")>>
            ELSE s2
      s4 == IF missing_skills # <<>>
            THEN s3 \o <<[kind |-> "priority_learning",
                          skills |-> SubSeq(missing_skills, 1,
                                            Min(TopMissing, Len(missing_skills)))]>>
            ELSE s3
  IN IF s4 = <<>> THEN <<Message("excellent_match")>> ELSE s4

(* ----------------------- ResumeProcessor.clean_text -------------------- *)
(* Characters other than word characters, whitespace and . + # - become    *)
(* blanks and runs of whitespace collapse: a token made only of such       *)
(* characters ("@") disappears from the text.                              *)
clean_text(text) == SelectSeq(text, LAMBDA t : t # "@")

(* the comprehension that parses the comma-separated required skills *)
parse_required_skills(pieces) ==
  LET kept == SelectSeq(pieces, LAMBDA x : str_strip(x).val # <<>>)
  IN [i \in 1..Len(kept) |-> str_lower(str_strip(kept[i]))]

(* mutant: the job-seeker mode weighs the three scores differently *)
overall_score_other_weights(skill_score, text_similarity, experience_score) ==
  FAdd(FAdd(FMul(skill_score, Frac(50, 100)), FMul(text_similarity, Frac(30, 100))),
       FMul(experience_score, Frac(20, 100)))

(* the weighted sum of analyze_single_resume *)
overall_score(skill_score, text_similarity, experience_score) ==
  FAdd(FAdd(FMul(skill_score, Frac(40, 100)), FMul(text_similarity, Frac(35, 100))),
       FMul(experience_score, Frac(25, 100)))

(* all orders a list built from a set can have *)
Orderings(S) ==
  {q \in [1..Cardinality(S) -> S] : \A i, j \in 1..Cardinality(S) : i # j => q[i] # q[j]}

(* -------- app.analyze_single_resume with display_personal_analysis ----- *)
(* upload holds what the processor extracts from the uploaded file.        *)
(* missing_order is the order list(set(...)) gives the missing skills.     *)
analyze_single_resume(self, upload, job_description, required_skills, min_experience, missing_order) ==
  IF upload.text = <<>>
  THEN [raised |-> FALSE, value |-> None, errors |-> <<[kind |-> "no_text_extracted"]>>]
  ELSE
    LET cleaned_text == clean_text(upload.text)
        required_skills_list == parse_required_skills(required_skills)
        skill == calculate_skill_match_score(upload.skills, required_skills_list)
        text == calculate_text_similarity(self, cleaned_text, job_description)
        experience == calculate_experience_score(upload.experience_years, min_experience)
        resume_lower == {str_lower(x) : x \in SeqToSet(upload.skills)}
        matched_skills == resume_lower \cap SeqToSet(required_skills_list)
        missing_skills == SeqToSet(required_skills_list) \ resume_lower
        missing_list == IF missing_order \in Orderings(missing_skills)
                        THEN missing_order
                        ELSE CHOOSE q \in Orderings(missing_skills) : TRUE
    IN [raised |-> FALSE,
        value |->
          [overall_score |-> overall_score(skill.value, text.value, experience.value),
           skill_score |-> skill.value,
           text_similarity |-> text.value,
           experience_score |-> experience.value,
           matched_skills |-> matched_skills,
           missing_skills |-> missing_list,
           suggestions |-> get_improvement_suggestions(skill.value, text.value,
                                                       experience.value, missing_list)],
        errors |-> text.errors]

(* ---------------------- app.display_ranking_results -------------------- *)
(* What the page shows for a ranking: the header, one expander per entry   *)
(* in rank order, and, only for a non-empty ranking, the chart and the     *)
(* report (total, sum of scores for the average, top score, number of      *)
(* entries above 0.5, download button).                                    *)
RECURSIVE SumScores(_)
SumScores(ranked_results) ==
  IF ranked_results = <<>> THEN Zero
  ELSE FAdd(SumScores(Tail(ranked_results)), Head(ranked_results).final_score)

display_ranking_results(ranked_results, job_requirements) ==
  <<[kind |-> "header", text |-> "Ranking Results"]>>
    \o [i \in 1..Len(ranked_results) |->
          [kind |-> "expander", rank |-> i, filename |-> ranked_results[i].filename,
           final_score |-> ranked_results[i].final_score]]
    \o (IF ranked_results # <<>>
        THEN <<[kind |-> "chart"],
               [kind |-> "report",
                total |-> Len(ranked_results),
                average |-> FMul(SumScores(ranked_results), Frac(1, Len(ranked_results))),
                top_score |-> ranked_results[1].final_score,
                qualified |-> Cardinality({i \in 1..Len(ranked_results) :
                                FLt(Frac(5, 10), ranked_results[i].final_score)})],
               [kind |-> "download"]>>
        ELSE <<>>)

(* the loop of app.rank_resumes that builds resumes_data from the uploads: *)
(* files of another type and files without text are left out               *)
RECURSIVE build_resumes_data(_)
build_resumes_data(uploaded_files) ==
  IF uploaded_files = <<>> THEN <<>>
  ELSE
    LET rest == build_resumes_data(SubSeq(uploaded_files, 1, Len(uploaded_files) - 1))
        f == uploaded_files[Len(uploaded_files)]
    IN IF f.type \notin {"pdf", "docx"} \/ f.text = <<>> THEN rest
       ELSE Append(rest, [filename |-> f.name,
                          text |-> clean_text(f.text),
                          skills |-> f.skills,
                          experience_years |-> f.experience_years,
                          education |-> f.education,
                          contact_info |-> f.contact_info])

(* --------------------------- app.rank_resumes -------------------------- *)
app_rank_resumes(self, uploaded_files, job_requirements) ==
  LET resumes_data == build_resumes_data(uploaded_files)
  IN IF resumes_data = <<>>
     THEN [shown |-> <<>>, ranked_results |-> None,
           errors |-> <<[kind |-> "could_not_process_any_resumes"]>>]
     ELSE LET r == rank_resumes(self, resumes_data, job_requirements)
          IN [shown |-> display_ranking_results(r.value, job_requirements),
              ranked_results |-> r.value,
              errors |-> r.errors]

(* ------------------------------ inputs --------------------------------- *)
MaxResumes == 3

SkillStrings ==
  { PyStr(<<"p", "y">>), PyStr(<<"P", "y">>), PyStr(<<" ", "p", "y">>),
    PyStr(<<"s", "q", "l">>), PyStr(<<"j">>) }

RECURSIVE SeqsUpTo(_, _)
SeqsUpTo(S, k) ==
  IF k = 0 THEN {<<>>}
  ELSE LET shorter == SeqsUpTo(S, k - 1)
       IN shorter \cup {Append(s, x) : s \in {t \in shorter : Len(t) = k - 1}, x \in S}

SkillLists == SeqsUpTo(SkillStrings, MaxSkills)

Years == {PyInt(k) : k \in 0..MaxYears}

Py == PyStr(<<"p", "y">>)

Sql == PyStr(<<"s", "q", "l">>)

Text1 == <<"python", "developer">>

Text2 == <<"sales">>

Texts == {<<>>, Text1, Text2}

(* resume facts handed to rank_resumes, well formed and malformed *)
ResumePool ==
  { [skills |-> <<Py, Sql>>, text |-> Text1, experience_years |-> PyInt(5)],
    [skills |-> <<PyStr(<<"P", "y">>)>>, text |-> Text1, experience_years |-> PyInt(2),
     contact_info |-> [email |-> "a@b.c"]],
    [skills |-> <<PyStr(<<" ", "p", "y">>)>>, text |-> <<>>, experience_years |-> PyInt(0)],
    [skills |-> <<>>, text |-> Text2, experience_years |-> PyInt(3)],
    [skills |-> <<Py, None>>, text |-> Text1, experience_years |-> PyInt(1)],
    [skills |-> <<Sql>>, text |-> Text1, experience_years |-> None],
    [text |-> Text1],
    [skills |-> <<PyStr(<<"j">>)>>, text |-> Text2, experience_years |-> PyInt(5)] }

JobPool ==
  { [required_skills |-> <<Py, Sql>>, job_description |-> Text1, min_experience |-> PyInt(3)],
    [required_skills |-> <<Py, Py>>, job_description |-> Text1, min_experience |-> PyInt(0)],
    [required_skills |-> <<>>, job_description |-> <<>>, min_experience |-> PyInt(2)],
    [required_skills |-> <<PyStr(<<" ", "p", "y">>), Sql>>, job_description |-> Text2,
     min_experience |-> PyInt(5)],
    [job_description |-> Text1],
    [required_skills |-> <<None>>, job_description |-> Text1, min_experience |-> PyInt(1)] }

FileNames == <<"A.pdf", "B.pdf", "C.pdf", "D.pdf", "E.pdf">>

(* the dict app.rank_resumes appends for the i-th uploaded file *)
WithFilename(facts, i) ==
  [k \in DOMAIN facts \cup {"filename"} |->
     IF k = "filename" THEN FileNames[i] ELSE facts[k]]

Batches ==
  {[i \in 1..Len(b) |-> WithFilename(b[i], i)] : b \in SeqsUpTo(ResumePool, MaxResumes)}

(* what the processor extracts from one uploaded resume *)
UploadPool ==
  { [text |-> Text1, skills |-> <<Py, Sql>>, experience_years |-> PyInt(5)],
    [text |-> Text1, skills |-> <<Py>>, experience_years |-> PyInt(2)],
    [text |-> Text2, skills |-> <<>>, experience_years |-> PyInt(0)],
    [text |-> <<"@">>, skills |-> <<>>, experience_years |-> PyInt(0)],
    [text |-> <<"sales", "@">>, skills |-> <<Sql>>, experience_years |-> PyInt(1)],
    [text |-> <<>>, skills |-> <<>>, experience_years |-> PyInt(0)] }

(* the pieces of the comma-separated skills field *)
SkillPieces == {Py, PyStr(<<" ">>), PyStr(<<"S", "q", "l", " ">>), PyStr(<<"j">>)}

ScoreSteps == 5

MaxMissing == 4

(* scores on a grid, with the thresholds of the rule table among them *)
ScoreSamples ==
  {Frac(k, ScoreSteps) : k \in 0..ScoreSteps}
    \cup {Frac(2, 10), Frac(3, 10), Frac(4, 10), Frac(5, 10), Frac(6, 10)}

MissingSkills ==
  <<Py, Sql, PyStr(<<"j">>), PyStr(<<"g", "o">>), PyStr(<<"r">>), PyStr(<<"c">>)>>

(* duplicate-free lists of missing skills, in two orders *)
MissingLists ==
  {SubSeq(MissingSkills, 1, k) : k \in 0..Min(MaxMissing, Len(MissingSkills))}
    \cup {[i \in 1..k |-> MissingSkills[k + 1 - i]] :
            k \in 0..Min(MaxMissing, Len(MissingSkills))}

(* uploaded files with what the processor extracts from them *)
UploadedFilePool ==
  { [type |-> "pdf", text |-> Text1, skills |-> <<Py, Sql>>, experience_years |-> PyInt(5),
     education |-> <<"bachelor">>, contact_info |-> [email |-> "a@b.c"]],
    [type |-> "docx", text |-> <<"sales", "@">>, skills |-> <<Py>>,
     experience_years |-> PyInt(1), education |-> <<>>, contact_info |-> [k \in {} |-> ""]],
    [type |-> "pdf", text |-> <<>>, skills |-> <<>>, experience_years |-> PyInt(0),
     education |-> <<>>, contact_info |-> [k \in {} |-> ""]],
    [type |-> "png", text |-> Text1, skills |-> <<Py>>, experience_years |-> PyInt(2),
     education |-> <<>>, contact_info |-> [k \in {} |-> ""]],
    [type |-> "docx", text |-> Text2, skills |-> <<>>, experience_years |-> PyInt(0),
     education |-> <<>>, contact_info |-> [k \in {} |-> ""]] }

WithName(file, i) ==
  [k \in DOMAIN file \cup {"name"} |-> IF k = "name" THEN FileNames[i] ELSE file[k]]

UploadBatches ==
  {[i \in 1..Len(b) |-> WithName(b[i], i)] :
     b \in SeqsUpTo(UploadedFilePool, MaxResumes) \ {<<>>}}

(* the job requirements the sidebar of hr_recruiter_mode builds *)
SidebarJobs ==
  { [job_title |-> "Software Engineer", job_description |-> Text1,
     required_skills |-> <<Py, Sql>>, min_experience |-> PyInt(2)],
    [job_title |-> "Software Engineer", job_description |-> Text2,
     required_skills |-> <<>>, min_experience |-> PyInt(0)],
    [job_title |-> "Software Engineer", job_description |-> <<>>,
     required_skills |-> <<Py, Py>>, min_experience |-> PyInt(6)] }

(* ------------------------------ actions -------------------------------- *)
(* earlier remembers one rank_resumes call of the session: its arguments   *)
(* and what it returned.                                                   *)
NoCall == [stage |-> "none"]

Init ==
  /\ ranker = [a \in {} |-> ""]
  /\ op = "start"
  /\ args = <<>>
  /\ ret = <<>>
  /\ st_errors = <<>>
  /\ raised = FALSE
  /\ earlier = NoCall

(* app.load_processors(), the first statement of every request handler.    *)
(* st.cache_resource constructs the ResumeRanker on the first call and     *)
(* hands back the same object on every later one.                          *)
load_processors ==
  /\ op # "load_processors"
  /\ IF op = "start"
     THEN \E outcome \in {"loaded", "downloaded", "unavailable"} :
            LET r == ResumeRanker_init(outcome)
            IN /\ ranker' = r.self
               /\ st_errors' = r.errors
     ELSE /\ UNCHANGED ranker
          /\ st_errors' = <<>>
  /\ op' = "load_processors"
  /\ args' = <<>>
  /\ ret' = <<>>
  /\ raised' = FALSE
  /\ UNCHANGED earlier

CallSkillMatch ==
  /\ op = "load_processors"
  /\ \E rs \in SkillLists, rq \in SkillLists :
        LET r == calculate_skill_match_score(rs, rq)
        IN /\ args' = [resume_skills |-> rs, required_skills |-> rq]
           /\ ret' = r.value
           /\ raised' = r.raised
  /\ op' = "calculate_skill_match_score"
  /\ st_errors' = <<>>
  /\ UNCHANGED <<ranker, earlier>>

CallExperience ==
  /\ op = "load_processors"
  /\ \E ry \in Years, rq \in Years :
        LET r == calculate_experience_score(ry, rq)
        IN /\ args' = [resume_experience |-> ry, required_experience |-> rq]
           /\ ret' = r.value
           /\ raised' = r.raised
  /\ op' = "calculate_experience_score"
  /\ st_errors' = <<>>
  /\ UNCHANGED <<ranker, earlier>>

CallTextSimilarity ==
  /\ op = "load_processors"
  /\ \E t \in Texts, jd \in Texts :
        LET r == calculate_text_similarity(ranker, t, jd)
        IN /\ args' = [resume_text |-> t, job_description |-> jd]
           /\ ret' = [value |-> r.value, vectorizer_used |-> r.vectorizer_used]
           /\ raised' = r.raised
           /\ st_errors' = r.errors
  /\ op' = "calculate_text_similarity"
  /\ UNCHANGED <<ranker, earlier>>

CallRankResumes ==
  /\ op = "load_processors"
  /\ \E batch \in Batches, job \in JobPool :
        LET r == rank_resumes(ranker, batch, job)
        IN /\ args' = [resumes_data |-> batch, job_requirements |-> job]
           /\ ret' = r.value
           /\ raised' = r.raised
           /\ st_errors' = r.errors
           /\ ranker' = r.self
  /\ op' = "rank_resumes"
  /\ UNCHANGED earlier

CallSuggestions ==
  /\ op = "load_processors"
  /\ \E s \in ScoreSamples, t \in ScoreSamples, e \in ScoreSamples, m \in MissingLists :
        /\ args' = [skill_score |-> s, text_similarity |-> t, experience_score |-> e,
                    missing_skills |-> m]
        /\ ret' = get_improvement_suggestions(s, t, e, m)
  /\ op' = "get_improvement_suggestions"
  /\ raised' = FALSE
  /\ st_errors' = <<>>
  /\ UNCHANGED <<ranker, earlier>>

AnalyzeSingleResume ==
  /\ op = "load_processors"
  /\ \E upload \in UploadPool, jd \in Texts, pieces \in SeqsUpTo(SkillPieces, MaxSkills),
        min_experience \in Years :
        \E order \in Orderings(SeqToSet(parse_required_skills(pieces))
                                 \ {str_lower(x) : x \in SeqToSet(upload.skills)}) :
          LET r == analyze_single_resume(ranker, upload, jd, pieces, min_experience, order)
          IN /\ args' = [upload |-> upload, job_description |-> jd,
                         required_skills |-> pieces, min_experience |-> min_experience]
             /\ ret' = r.value
             /\ raised' = r.raised
             /\ st_errors' = r.errors
  /\ op' = "analyze_single_resume"
  /\ UNCHANGED <<ranker, earlier>>

(* hr_recruiter_mode: the Rank Resumes button with at least one upload *)
RankUploadedResumes ==
  /\ op = "load_processors"
  /\ \E files \in UploadBatches, job \in SidebarJobs :
        LET r == app_rank_resumes(ranker, files, job)
        IN /\ args' = [uploaded_files |-> files, job_requirements |-> job]
           /\ ret' = [shown |-> r.shown, ranked_results |-> r.ranked_results]
           /\ st_errors' = r.errors
  /\ op' = "app_rank_resumes"
  /\ raised' = FALSE
  /\ UNCHANGED <<ranker, earlier>>

Next ==
  \/ load_processors
  \/ RankUploadedResumes
  \/ CallSuggestions
  \/ AnalyzeSingleResume
  \/ CallTextSimilarity
  \/ CallRankResumes
  \/ CallSkillMatch
  \/ CallExperience

Spec == Init /\ [][Next]_vars

(* ----------- the same ranking requested twice in one session ----------- *)
MaxRepeatResumes == 2

RepeatResumes ==
  { [skills |-> <<Py, Sql>>, text |-> Text1, experience_years |-> PyInt(5)],
    [skills |-> <<PyStr(<<"P", "y">>)>>, text |-> Text1, experience_years |-> PyInt(2)],
    [skills |-> <<Sql>>, text |-> Text1, experience_years |-> None] }

RepeatBatches ==
  {[i \in 1..Len(b) |-> WithFilename(b[i], i)] :
     b \in SeqsUpTo(RepeatResumes, MaxRepeatResumes)}

RepeatJobs ==
  { [required_skills |-> <<Py, Sql>>, job_description |-> Text1, min_experience |-> PyInt(3)],
    [required_skills |-> <<Py, Py>>, job_description |-> Text1, min_experience |-> PyInt(0)],
    [required_skills |-> <<None>>, job_description |-> Text1, min_experience |-> PyInt(1)] }

(* the first ranking request of the session, remembered *)
FirstRankResumes ==
  /\ op = "load_processors"
  /\ earlier.stage = "none"
  /\ \E batch \in RepeatBatches, job \in RepeatJobs :
        LET r == rank_resumes(ranker, batch, job)
        IN /\ args' = [resumes_data |-> batch, job_requirements |-> job]
           /\ ret' = r.value
           /\ raised' = r.raised
           /\ st_errors' = r.errors
           /\ ranker' = r.self
           /\ earlier' = [stage |-> "first", interleaved |-> FALSE,
                          resumes_data |-> batch, job_requirements |-> job,
                          ret |-> r.value]
  /\ op' = "rank_resumes"

(* another ranking request on the cached ranker, in between *)
OtherRankResumes ==
  /\ op = "load_processors"
  /\ earlier.stage = "first"
  /\ \E batch \in RepeatBatches, job \in RepeatJobs :
        /\ <<batch, job>> # <<earlier.resumes_data, earlier.job_requirements>>
        /\ LET r == rank_resumes(ranker, batch, job)
           IN /\ args' = [resumes_data |-> batch, job_requirements |-> job]
              /\ ret' = r.value
              /\ raised' = r.raised
              /\ st_errors' = r.errors
              /\ ranker' = r.self
  /\ earlier' = [earlier EXCEPT !.stage = "other", !.interleaved = TRUE]
  /\ op' = "rank_resumes"

(* the remembered request, made again *)
RepeatRankResumes ==
  /\ op = "load_processors"
  /\ earlier.stage \in {"first", "other"}
  /\ LET r == rank_resumes(ranker, earlier.resumes_data, earlier.job_requirements)
     IN /\ args' = [resumes_data |-> earlier.resumes_data,
                    job_requirements |-> earlier.job_requirements]
        /\ ret' = r.value
        /\ raised' = r.raised
        /\ st_errors' = r.errors
        /\ ranker' = r.self
  /\ earlier' = [earlier EXCEPT !.stage = "repeated"]
  /\ op' = "rank_resumes_repeat"

NextRepeat ==
  \/ load_processors
  \/ FirstRankResumes
  \/ OtherRankResumes
  \/ RepeatRankResumes

SpecRepeat == Init /\ [][NextRepeat]_vars

(* ============================== claims ================================== *)
CalledSkillMatch == op = "calculate_skill_match_score" /\ ~raised

(* the required skills that are members of resume_skills, compared         *)
(* case-insensitively                                                      *)
C1_Present(resume_skills, required_skills) ==
  {i \in 1..Len(required_skills) :
     str_lower(required_skills[i]) \in {str_lower(x) : x \in SeqToSet(resume_skills)}}

C1_Trimmed(skills) ==
  \A i \in 1..Len(skills) : str_strip(str_lower(skills[i])) = skills[i]

(* C1: calculate_skill_match_score returns 1.0 if and only if every        *)
(* required skill, compared case-insensitively, is a member of             *)
(* resume_skills, duplicates among the required skills allowed.  Stated    *)
(* here for the calls the application makes: a non-empty required list     *)
(* whose entries, like the resume's, are lower-case and trimmed.           *)
C1_FullScoreIffAllRequiredPresent ==
  (/\ CalledSkillMatch
   /\ args.required_skills # <<>>
   /\ C1_Trimmed(args.required_skills)
   /\ C1_Trimmed(args.resume_skills))
  => (ret = One <=>
        C1_Present(args.resume_skills, args.required_skills)
          = 1..Len(args.required_skills))

C6_ExperienceScore ==
  (op = "calculate_experience_score") =>
    LET resume_years == args.resume_experience.num
        min_years == args.required_experience.num
    IN /\ ~raised
       /\ min_years = 0 => ret = One
       /\ (min_years # 0 /\ resume_years >= min_years) => ret = One
       /\ (min_years # 0 /\ resume_years < min_years /\ resume_years = 0) => ret = Zero
       /\ (min_years # 0 /\ resume_years < min_years /\ resume_years # 0)
            => ret.n * min_years = ret.d * resume_years /\ ret.d > 0

(* 3 years against a minimum of 5 scored 0.6 *)
C6_Witness ==
  /\ op = "calculate_experience_score"
  /\ args.resume_experience = PyInt(3)
  /\ args.required_experience = PyInt(5)
  /\ ret = Frac(6, 10)

CalledTextSimilarity == op = "calculate_text_similarity"

(* C2: for a non-empty text t, calculate_text_similarity(t, t) on a        *)
(* constructed ranker is approximately 1.0.                                *)
C2_IdenticalTextsScoreOne ==
  (/\ CalledTextSimilarity
   /\ ranker.nlp = "en_core_web_sm"
   /\ args.resume_text # <<>>
   /\ args.resume_text = args.job_description)
  => (~raised /\ FLe(Frac(99, 100), ret.value))

(* C9: calculate_text_similarity never propagates an exception; an empty   *)
(* resume text or job description gives 0.0 without the vectorizer being   *)
(* touched; a failing vectorizer step on non-empty inputs is caught,       *)
(* reported and gives 0.0.                                                 *)
C9_SimilarityNeverRaises ==
  CalledTextSimilarity =>
    /\ ~raised
    /\ (args.resume_text = <<>> \/ args.job_description = <<>>)
         => (ret.value = Zero /\ ~ret.vectorizer_used /\ st_errors = <<>>)
    /\ (args.resume_text # <<>> /\ args.job_description # <<>>
          /\ "vectorizer" \notin DOMAIN ranker)
         => (ret.value = Zero /\ ret.vectorizer_used /\ Len(st_errors) = 1)

(* a failing vectorizer step on two non-empty texts, caught and scored 0.0 *)
C9_Witness ==
  /\ CalledTextSimilarity
  /\ args.resume_text = Text1
  /\ args.job_description = Text2
  /\ ~raised
  /\ ret.value = Zero
  /\ st_errors # <<>>

CalledRank == op = "rank_resumes"

C3_InputIndex(filename) ==
  CHOOSE k \in 1..Len(args.resumes_data) : args.resumes_data[k].filename = filename

(* C3: the output of rank_resumes is in non-increasing order of            *)
(* final_score, and entries with equal final_score are in input order.     *)
C3_SortedAndStable ==
  CalledRank =>
    \A i, j \in 1..Len(ret) :
      i < j =>
        /\ FLe(ret[j].final_score, ret[i].final_score)
        /\ ret[i].final_score = ret[j].final_score
             => C3_InputIndex(ret[i].filename) < C3_InputIndex(ret[j].filename)

(* a lower-scoring A submitted first ends last, behind the tied B and C *)
C3_Witness ==
  /\ CalledRank
  /\ Len(ret) = 3
  /\ ret[1].filename = "B.pdf"
  /\ ret[2].filename = "C.pdf"
  /\ ret[3].filename = "A.pdf"
  /\ ret[1].final_score = ret[2].final_score
  /\ FLt(ret[3].final_score, ret[2].final_score)

C4_Fails(k) == score_resume(ranker, args.resumes_data[k], args.job_requirements).raised

C4_InOutput(k) ==
  \E i \in 1..Len(ret) : ret[i].filename = args.resumes_data[k].filename

C4_Reported(k) ==
  \E i \in 1..Len(st_errors) :
    /\ st_errors[i].kind = "processing_error"
    /\ st_errors[i].filename = args.resumes_data[k].filename

(* C4: rank_resumes does not raise; a resume whose scoring raises is       *)
(* reported and left out, and every other resume of the batch is in the    *)
(* output.                                                                 *)
C4_FailureSkipsOnlyThatResume ==
  CalledRank =>
    /\ ~raised
    /\ \A k \in 1..Len(args.resumes_data) :
         IF C4_Fails(k)
         THEN C4_Reported(k) /\ ~C4_InOutput(k)
         ELSE C4_InOutput(k) /\ ~C4_Reported(k)

(* the first resume of three fails, the two after it are ranked *)
C4_Witness ==
  /\ CalledRank
  /\ Len(args.resumes_data) = 3
  /\ C4_Fails(1)
  /\ ~C4_Fails(2)
  /\ ~C4_Fails(3)
  /\ Len(ret) = 2
  /\ Len(st_errors) >= 1

C5_InUnit(x) == FLe(Zero, x) /\ FLe(x, One) /\ x.d > 0

(* C5: every entry rank_resumes returns has skill_score, text_similarity,  *)
(* experience_score and final_score within [0.0, 1.0].                     *)
C5_ScoresInUnitInterval ==
  CalledRank =>
    \A i \in 1..Len(ret) :
      /\ C5_InUnit(ret[i].skill_score)
      /\ C5_InUnit(ret[i].text_similarity)
      /\ C5_InUnit(ret[i].experience_score)
      /\ C5_InUnit(ret[i].final_score)

(* an entry with more years than the minimum asks for, and one in between *)
C5_Witness ==
  /\ CalledRank
  /\ args.job_requirements
       = [required_skills |-> <<Py, Sql>>, job_description |-> Text1,
          min_experience |-> PyInt(3)]
  /\ \E i \in 1..Len(ret) :
       /\ ret[i].experience_years = PyInt(5)
       /\ ret[i].experience_score = One
       /\ ret[i].skill_score = One
  /\ \E i \in 1..Len(ret) :
       FLt(Zero, ret[i].experience_score) /\ FLt(ret[i].experience_score, One)

C8_Weighted(s, t, e) ==
  Frac(40 * s.n * t.d * e.d + 35 * t.n * s.d * e.d + 25 * e.n * s.d * t.d,
       100 * s.d * t.d * e.d)

C8_Analyzed == op = "analyze_single_resume" /\ ret # None

(* the same facts and requirements, handed to rank_resumes *)
C8_SameInBatchMode ==
  rank_resumes(ranker,
               <<[filename |-> "A.pdf",
                  text |-> clean_text(args.upload.text),
                  skills |-> args.upload.skills,
                  experience_years |-> args.upload.experience_years]>>,
               [job_description |-> args.job_description,
                required_skills |-> parse_required_skills(args.required_skills),
                min_experience |-> args.min_experience]).value

(* C8: the final score is 0.40*skill + 0.35*similarity + 0.25*experience   *)
(* in rank_resumes and in analyze_single_resume, so the same facts and     *)
(* requirements get the same final score in both modes.                    *)
C8_SameWeightsInBothModes ==
  /\ CalledRank =>
       \A i \in 1..Len(ret) :
         ret[i].final_score
           = C8_Weighted(ret[i].skill_score, ret[i].text_similarity,
                         ret[i].experience_score)
  /\ C8_Analyzed =>
       /\ ret.overall_score
            = C8_Weighted(ret.skill_score, ret.text_similarity, ret.experience_score)
       /\ Len(C8_SameInBatchMode) = 1
       /\ C8_SameInBatchMode[1].final_score = ret.overall_score

(* a job seeker's resume with a partial skill and experience match *)
C8_Witness ==
  /\ C8_Analyzed
  /\ FLt(Zero, ret.skill_score) /\ FLt(ret.skill_score, One)
  /\ FLt(Zero, ret.experience_score) /\ FLt(ret.experience_score, One)
  /\ FLt(Zero, ret.overall_score)

C10_Rows ==
  <<[fires |-> FLt(args.skill_score, Frac(3, 10)),
     message |-> Message("critical_skill_gap")],
    [fires |-> FLe(Frac(3, 10), args.skill_score) /\ FLt(args.skill_score, Frac(6, 10)),
     message |-> Message("skill_enhancement")],
    [fires |-> FLt(args.text_similarity, Frac(2, 10)),
     message |-> Message("resume_content")],
    [fires |-> FLe(Frac(2, 10), args.text_similarity)
                 /\ FLt(args.text_similarity, Frac(4, 10)),
     message |-> Message("content_optimization")],
    [fires |-> FLt(args.experience_score, Frac(5, 10)),
     message |-> Message("experience_gap")],
    [fires |-> Len(args.missing_skills) > 0,
     message |->
       [kind |-> "priority_learning",
        skills |-> [i \in 1..Min(3, Len(args.missing_skills)) |-> args.missing_skills[i]]]]>>

C10_Fired == SelectSeq(C10_Rows, LAMBDA row : row.fires)

(* C10: get_improvement_suggestions returns exactly the messages of the    *)
(* rule-table rows whose condition holds, in table order, the priority     *)
(* learning row listing at most the first 3 missing skills, and the single *)
(* excellent-match message if and only if no row fires.                    *)
C10_SuggestionsFollowRuleTable ==
  (op = "get_improvement_suggestions") =>
    IF C10_Fired = <<>>
    THEN ret = <<Message("excellent_match")>>
    ELSE /\ ret = [i \in 1..Len(C10_Fired) |-> C10_Fired[i].message]
         /\ \A i \in 1..Len(ret) : ret[i].kind # "excellent_match"

(* four rows fire at once, with four skills missing and three listed *)
C10_Witness ==
  /\ op = "get_improvement_suggestions"
  /\ Len(args.missing_skills) = 4
  /\ Len(ret) = 4
  /\ ret[4].kind = "priority_learning"
  /\ Len(ret[4].skills) = 3

(* C13: in every entry rank_resumes returns, skill_score times the number  *)
(* of required skills equals the number of entries in matched_skills,      *)
(* mixed case and padded skill strings included.                           *)
C13_ScoreAgreesWithMatchedSkills ==
  CalledRank =>
    \A i \in 1..Len(ret) :
      ret[i].skill_score.n * Len(Get(args.job_requirements, "required_skills", <<>>))
        = ret[i].skill_score.d * Cardinality(ret[i].matched_skills)

C14_Scored == {k \in 1..Len(args.resumes_data) : ~C4_Fails(k)}

C14_Alone(k) ==
  rank_resumes(ranker, <<args.resumes_data[k]>>, args.job_requirements).value

(* C14: the output of rank_resumes holds exactly one entry for each input  *)
(* resume scored without error, under that resume's filename, and nothing  *)
(* else; its length is the input's length minus the skipped resumes; and   *)
(* an entry is what the resume gets when it is ranked on its own.          *)
C14_OutputIsPermutationOfScored ==
  CalledRank =>
    LET scored == C14_Scored
    IN /\ Len(ret) = Len(args.resumes_data)
                       - Cardinality((1..Len(args.resumes_data)) \ scored)
       /\ \A k \in scored :
            /\ Cardinality({i \in 1..Len(ret) :
                              ret[i].filename = args.resumes_data[k].filename})
                 = Cardinality({j \in scored :
                                  args.resumes_data[j].filename
                                    = args.resumes_data[k].filename})
            /\ \E i \in 1..Len(ret) : <<ret[i]>> = C14_Alone(k)
       /\ \A i \in 1..Len(ret) :
            \E k \in scored : ret[i].filename = args.resumes_data[k].filename

(* three resumes, the second skipped, the third ranked ahead of the first *)
C14_Witness ==
  /\ CalledRank
  /\ Len(args.resumes_data) = 3
  /\ C4_Fails(2)
  /\ Len(ret) = 2
  /\ ret[1].filename = "C.pdf"
  /\ ret[2].filename = "A.pdf"
  /\ FLt(ret[2].final_score, ret[1].final_score)

C11_AllFailed ==
  /\ CalledRank
  /\ args.resumes_data # <<>>
  /\ \A k \in 1..Len(args.resumes_data) : C4_Fails(k)

C11_OfEmptyBatch == rank_resumes(ranker, <<>>, args.job_requirements).value

(* C11: when every resume of a non-empty batch fails during scoring, what  *)
(* the caller gets, and what the page then shows for it, differ from the   *)
(* result of ranking an empty batch and from a ranking with low scores.    *)
C11_TotalFailureIsExplicit ==
  C11_AllFailed =>
    /\ ret # C11_OfEmptyBatch
    /\ display_ranking_results(ret, args.job_requirements)
         # display_ranking_results(C11_OfEmptyBatch, args.job_requirements)

(* C12: a ranking request made again on the same ranker, directly or       *)
(* after another ranking request, returns the identical ordered output     *)
(* with identical scores.                                                  *)
C12_RepeatedRankingIsIdentical ==
  (op = "rank_resumes_repeat") => (~raised /\ ret = earlier.ret)

(* two ranked resumes and one skipped, ranked again after another request *)
C12_Witness ==
  /\ op = "rank_resumes_repeat"
  /\ earlier.interleaved
  /\ Len(args.resumes_data) = 2
  /\ Len(ret) = 2
  /\ ret = earlier.ret

====
